---- MODULE Spec2Model ----
(***************************************************************************)
(* Model of .github/actions/terraform-dependency-sort/main.py: the Graph   *)
(* of Terraform stacks (Node, Graph.add_node), the cycle validator         *)
(* (Graph.resolve_dependencies, Node.dep_resolve), the topological orderer *)
(* (Graph.topological_sort) and the pipeline of __main__.                  *)
(*                                                                         *)
(* A Node object is identified by its name (Graph.nodes holds one Node per *)
(* key).  The dict Graph.nodes is the pair (keys, nodes): keys is the      *)
(* insertion order of the dict, nodes maps a key to its Node record.       *)
(***************************************************************************)
EXTENDS Integers, Sequences, FiniteSets, TLC

VARIABLES keys, nodes, base_dir, seen, declared, call, pc, stack_files, drawing, tfv

vars == <<keys, nodes, base_dir, seen, declared, call, pc, stack_files, drawing, tfv>>

-----------------------------------------------------------------------------
(* Bounds of the model *)

MaxDeps == 1

MaxCalls == 4

MaxListDeps == 2

MaxListCalls == 3

-----------------------------------------------------------------------------
(* Program constants and input sets *)

DEFAULT_RUNNER_LABEL == "ubuntu-latest"

RunnerLabels == {DEFAULT_RUNNER_LABEL, "self-hosted"}

(* the configurations fed to add_node: the defaults of the schema, and one *)
(* that differs from the defaults in every field                           *)
Configs ==
    {[runner_label |-> DEFAULT_RUNNER_LABEL, planned_changes |-> TRUE,
      skip_when_destroying |-> FALSE],
     [runner_label |-> "self-hosted", planned_changes |-> FALSE,
      skip_when_destroying |-> TRUE]}

StackIds == {"stack1", "stack2", "stack3"}

PipelineIds == {"stack1", "stack2", "stack3", "stack4"}

BaseDirs == {StackIds, StackIds \ {"stack3"}}

UnknownDependency == "Unknown dependency detected"

CircularReference == "Circular reference detected"

NoError == [kind |-> "none", n |-> "", d |-> ""]

-----------------------------------------------------------------------------
(* Helpers on sequences (Python list operations) *)

In(x, s) == \E i \in 1..Len(s) : s[i] = x

Range(s) == {s[i] : i \in 1..Len(s)}

(* reversed moving the last element to the front only *)
reversed_rotate(s) ==
    IF s = <<>> THEN <<>> ELSE <<s[Len(s)]>> \o SubSeq(s, 1, Len(s) - 1)

RECURSIVE reversed(_)
reversed(s) == IF s = <<>> THEN <<>> ELSE Append(reversed(Tail(s)), Head(s))

SeqsUpTo(S, n) == UNION {[1..k -> S] : k \in 0..n}

-----------------------------------------------------------------------------
(* class Node *)

verify_dir_exists(dirs, name) == name \in dirs

Node(name, dirs, runner_label, planned_changes, skip_when_destroying) ==
    [name |-> name,
     runner_label |-> runner_label,
     planned_changes |-> planned_changes,
     skip_when_destroying |-> skip_when_destroying,
     edges |-> <<>>,
     valid_dir |-> verify_dir_exists(dirs, name)]

(* add_edge putting the new edge in front of the list *)
add_edge_prepend(G, name, edge) ==
    [G EXCEPT !.nodes[name].edges = <<edge>> \o @]

add_edge(G, name, edge) ==
    [G EXCEPT !.nodes[name].edges = Append(@, edge)]

-----------------------------------------------------------------------------
(* class Graph: a graph value is [keys, nodes, base_dir] *)

SetItem(G, k, v) ==
    IF k \in DOMAIN G.nodes
    THEN [G EXCEPT !.nodes[k] = v]
    ELSE [G EXCEPT !.keys = Append(@, k),
                   !.nodes = [x \in DOMAIN G.nodes \cup {k} |->
                                 IF x = k THEN v ELSE G.nodes[x]]]

(* add_node_head with the merge branch updating runner_label only *)
add_node_head_label_only(G, stack_dir, runner_label, planned_changes, skip_when_destroying) ==
    IF stack_dir \notin DOMAIN G.nodes
    THEN SetItem(G, stack_dir,
                 Node(stack_dir, G.base_dir, runner_label, planned_changes, FALSE))
    ELSE [G EXCEPT !.nodes[stack_dir].runner_label = runner_label]

(* lines 141-170: create the node, or overwrite the metadata of an existing one *)
add_node_head(G, stack_dir, runner_label, planned_changes, skip_when_destroying) ==
    IF stack_dir \notin DOMAIN G.nodes
    THEN SetItem(G, stack_dir,
                 Node(stack_dir, G.base_dir, runner_label, planned_changes, FALSE))
    ELSE [G EXCEPT !.nodes[stack_dir].runner_label = runner_label,
                   !.nodes[stack_dir].planned_changes = planned_changes,
                   !.nodes[stack_dir].skip_when_destroying = skip_when_destroying]

(* add_node_deps with the edge appended before valid_dir is checked *)
RECURSIVE add_node_deps_edge_first(_, _, _, _)
add_node_deps_edge_first(G, stack_dir, dependencies, i) ==
    IF i > Len(dependencies)
    THEN [graph |-> G, error |-> NoError]
    ELSE LET dep == dependencies[i]
             G1 == IF dep \notin DOMAIN G.nodes
                   THEN SetItem(G, dep,
                                Node(dep, G.base_dir, DEFAULT_RUNNER_LABEL, TRUE, FALSE))
                   ELSE G
             G2 == add_edge(G1, stack_dir, dep)
         IN IF ~G2.nodes[dep].valid_dir
            THEN [graph |-> G2,
                  error |-> [kind |-> UnknownDependency, n |-> stack_dir, d |-> dep]]
            ELSE add_node_deps_edge_first(G2, stack_dir, dependencies, i + 1)

(* add_node_deps raising before a node is created for the dependency *)
RECURSIVE add_node_deps_check_first(_, _, _, _)
add_node_deps_check_first(G, stack_dir, dependencies, i) ==
    IF i > Len(dependencies)
    THEN [graph |-> G, error |-> NoError]
    ELSE LET dep == dependencies[i]
         IN IF dep \notin DOMAIN G.nodes /\ ~verify_dir_exists(G.base_dir, dep)
            THEN [graph |-> G,
                  error |-> [kind |-> UnknownDependency, n |-> stack_dir, d |-> dep]]
            ELSE LET G1 == IF dep \notin DOMAIN G.nodes
                           THEN SetItem(G, dep,
                                        Node(dep, G.base_dir, DEFAULT_RUNNER_LABEL,
                                             TRUE, FALSE))
                           ELSE G
                 IN IF ~G1.nodes[dep].valid_dir
                    THEN [graph |-> G1,
                          error |-> [kind |-> UnknownDependency,
                                     n |-> stack_dir, d |-> dep]]
                    ELSE add_node_deps_check_first(add_edge(G1, stack_dir, dep),
                                                   stack_dir, dependencies, i + 1)

(* lines 173-180: the loop over the dependencies, stopped by the first raise *)
RECURSIVE add_node_deps(_, _, _, _)
add_node_deps(G, stack_dir, dependencies, i) ==
    IF i > Len(dependencies)
    THEN [graph |-> G, error |-> NoError]
    ELSE LET dep == dependencies[i]
             G1 == IF dep \notin DOMAIN G.nodes
                   THEN SetItem(G, dep,
                                Node(dep, G.base_dir, DEFAULT_RUNNER_LABEL, TRUE, FALSE))
                   ELSE G
         IN IF ~G1.nodes[dep].valid_dir
            THEN [graph |-> G1,
                  error |-> [kind |-> UnknownDependency, n |-> stack_dir, d |-> dep]]
            ELSE add_node_deps(add_edge(G1, stack_dir, dep), stack_dir, dependencies, i + 1)

add_node(G, stack_dir, dependencies, runner_label, planned_changes, skip_when_destroying) ==
    add_node_deps(
        add_node_head(G, stack_dir, runner_label, planned_changes, skip_when_destroying),
        stack_dir, dependencies, 1)

-----------------------------------------------------------------------------
(* Node.dep_resolve and Graph.resolve_dependencies.  The parameter seen of  *)
(* dep_resolve defaults to one list object created when the function is    *)
(* defined; resolve_dependencies never passes it, so every call appends to *)
(* that same list: it is the variable seen.                                *)

(* dep_resolve without the test "edge not in resolved" of line 114 *)
RECURSIVE dep_resolve_no_resolved(_, _, _, _), dep_resolve_edges_no_resolved(_, _, _, _, _)
dep_resolve_no_resolved(G, self, resolved, seen0) ==
    LET r == dep_resolve_edges_no_resolved(G, self, 1, resolved, Append(seen0, self))
    IN IF r.error.kind # "none"
       THEN r
       ELSE [r EXCEPT !.resolved = Append(@, self)]

dep_resolve_edges_no_resolved(G, self, i, resolved, seen0) ==
    IF i > Len(G.nodes[self].edges)
    THEN [resolved |-> resolved, seen |-> seen0, error |-> NoError]
    ELSE LET edge == G.nodes[self].edges[i]
         IN IF In(edge, seen0)
            THEN [resolved |-> resolved, seen |-> seen0,
                  error |-> [kind |-> CircularReference, n |-> self, d |-> edge]]
            ELSE LET r == dep_resolve_no_resolved(G, edge, resolved, seen0)
                 IN IF r.error.kind # "none"
                    THEN r
                    ELSE dep_resolve_edges_no_resolved(G, self, i + 1, r.resolved, r.seen)

RECURSIVE dep_resolve(_, _, _, _), dep_resolve_edges(_, _, _, _, _)
dep_resolve(G, self, resolved, seen0) ==
    LET r == dep_resolve_edges(G, self, 1, resolved, Append(seen0, self))
    IN IF r.error.kind # "none"
       THEN r
       ELSE [r EXCEPT !.resolved = Append(@, self)]

dep_resolve_edges(G, self, i, resolved, seen0) ==
    IF i > Len(G.nodes[self].edges)
    THEN [resolved |-> resolved, seen |-> seen0, error |-> NoError]
    ELSE LET edge == G.nodes[self].edges[i]
         IN IF ~In(edge, resolved)
            THEN IF In(edge, seen0)
                 THEN [resolved |-> resolved, seen |-> seen0,
                       error |-> [kind |-> CircularReference, n |-> self, d |-> edge]]
                 ELSE LET r == dep_resolve(G, edge, resolved, seen0)
                      IN IF r.error.kind # "none"
                         THEN r
                         ELSE dep_resolve_edges(G, self, i + 1, r.resolved, r.seen)
            ELSE dep_resolve_edges(G, self, i + 1, resolved, seen0)

RECURSIVE resolve_dependencies_loop(_, _, _, _)
resolve_dependencies_loop(G, k, resolved, seen0) ==
    IF k > Len(G.keys)
    THEN [resolved |-> resolved, seen |-> seen0, error |-> NoError]
    ELSE LET r == dep_resolve(G, G.keys[k], resolved, seen0)
         IN IF r.error.kind # "none"
            THEN r
            ELSE resolve_dependencies_loop(G, k + 1, r.resolved, r.seen)

(* resolve_dependencies starting from the first node only *)
resolve_dependencies_first_only(G, seen0) ==
    IF G.keys = <<>>
    THEN [resolved |-> <<>>, seen |-> seen0, error |-> NoError]
    ELSE dep_resolve(G, G.keys[1], <<>>, seen0)

resolve_dependencies(G, seen0) == resolve_dependencies_loop(G, 1, <<>>, seen0)

-----------------------------------------------------------------------------
(* Graph.topological_sort *)

(* visit appending the node before its edges are visited *)
RECURSIVE visit_preorder(_, _, _), visit_edges_preorder(_, _, _, _)
visit_preorder(G, node, st) ==
    IF node \in st.visited
    THEN st
    ELSE visit_edges_preorder(G, node, 1,
                              [st EXCEPT !.visited = @ \cup {node},
                                         !.sorted_nodes = Append(@, node)])

visit_edges_preorder(G, node, i, st) ==
    IF i > Len(G.nodes[node].edges)
    THEN st
    ELSE visit_edges_preorder(G, node, i + 1,
                              visit_preorder(G, G.nodes[node].edges[i], st))

(* visit testing visited for the edges only, not for the node itself *)
RECURSIVE visit_unguarded(_, _, _), visit_edges_unguarded(_, _, _, _)
visit_unguarded(G, node, st) ==
    LET st1 == visit_edges_unguarded(G, node, 1,
                                     [st EXCEPT !.visited = @ \cup {node}])
    IN [st1 EXCEPT !.sorted_nodes = Append(@, node)]

visit_edges_unguarded(G, node, i, st) ==
    IF i > Len(G.nodes[node].edges)
    THEN st
    ELSE visit_edges_unguarded(
             G, node, i + 1,
             IF G.nodes[node].edges[i] \in st.visited
             THEN st
             ELSE visit_unguarded(G, G.nodes[node].edges[i], st))

RECURSIVE visit(_, _, _), visit_edges(_, _, _, _)
visit(G, node, st) ==
    IF node \in st.visited
    THEN st
    ELSE LET st1 == visit_edges(G, node, 1,
                                [st EXCEPT !.visited = @ \cup {node}])
         IN [st1 EXCEPT !.sorted_nodes = Append(@, node)]

visit_edges(G, node, i, st) ==
    IF i > Len(G.nodes[node].edges)
    THEN st
    ELSE visit_edges(G, node, i + 1, visit(G, G.nodes[node].edges[i], st))

(* the loop of line 229 running over the nodes from the last to the first *)
RECURSIVE topological_sort_loop_backwards(_, _, _)
topological_sort_loop_backwards(G, k, st) ==
    IF k > Len(G.keys)
    THEN st
    ELSE topological_sort_loop_backwards(
             G, k + 1, visit(G, G.keys[Len(G.keys) + 1 - k], st))

RECURSIVE topological_sort_loop(_, _, _)
topological_sort_loop(G, k, st) ==
    IF k > Len(G.keys)
    THEN st
    ELSE topological_sort_loop(G, k + 1, visit(G, G.keys[k], st))

topological_sort(G, reverse) ==
    LET sorted_nodes ==
            topological_sort_loop(G, 1, [sorted_nodes |-> <<>>, visited |-> {}]).sorted_nodes
    IN IF reverse THEN reversed(sorted_nodes) ELSE sorted_nodes

-----------------------------------------------------------------------------
(* State: the Graph object (keys, nodes, base_dir); the shared list seen;   *)
(* declared, the stack_dir arguments add_node has been called with; call,  *)
(* the last call with its arguments and outcome (was_new: line 141 took    *)
(* the creating branch; was_declared: stack_dir had been an argument       *)
(* before; prev_forward, prev_sorted: the call before was                  *)
(* topological_sort(reverse=False) and returned prev_sorted); pc, the      *)
(* position of __main__; stack_files, the files still to be processed;     *)
(* drawing, the flag DRAW_GRAPH, whether gvgen was imported (g exists),    *)
(* the items and links of g, and the nodes that got a graph_item; tfv, the  *)
(* run of parse-terraform-version/main.py (modelled further down).         *)

graph == [keys |-> keys, nodes |-> nodes, base_dir |-> base_dir]

NoTfv ==
    [version_constraints |-> <<>>, versions |-> {}, pc |-> "none",
     result |-> [space |-> FALSE, v |-> <<>>, error |-> "none"]]

NoDrawing ==
    [DRAW_GRAPH |-> FALSE, gvgen |-> FALSE, items |-> <<>>, links |-> <<>>,
     graph_item |-> {}]

NoCall ==
    [op |-> "none", stack_dir |-> "", dependencies |-> <<>>,
     runner_label |-> DEFAULT_RUNNER_LABEL, planned_changes |-> TRUE,
     skip_when_destroying |-> FALSE, was_new |-> FALSE, was_declared |-> FALSE,
     reverse |-> FALSE, prev_forward |-> FALSE, prev_sorted |-> <<>>,
     calls |-> 0, ret |-> <<>>, error |-> NoError]

Init ==
    /\ keys = <<>>
    /\ nodes = <<>>
    /\ base_dir \in BaseDirs
    /\ seen = <<>>
    /\ declared = {}
    /\ drawing = NoDrawing
    /\ tfv = NoTfv
    /\ call = NoCall
    /\ pc = "api"
    /\ stack_files = <<>>

(* Graph.add_node called by a user of the class *)
AddNode ==
    \E stack_dir \in StackIds, dependencies \in SeqsUpTo(StackIds, MaxDeps),
       config \in Configs :
        /\ pc = "api"
        /\ call.calls < MaxCalls
        /\ LET runner_label == config.runner_label
               planned_changes == config.planned_changes
               skip_when_destroying == config.skip_when_destroying
               r == add_node(graph, stack_dir, dependencies, runner_label,
                             planned_changes, skip_when_destroying)
           IN /\ keys' = r.graph.keys
              /\ nodes' = r.graph.nodes
              /\ call' = [NoCall EXCEPT !.op = "add_node",
                                        !.stack_dir = stack_dir,
                                        !.dependencies = dependencies,
                                        !.runner_label = runner_label,
                                        !.planned_changes = planned_changes,
                                        !.skip_when_destroying = skip_when_destroying,
                                        !.was_new = stack_dir \notin DOMAIN nodes,
                                        !.was_declared = stack_dir \in declared,
                                        !.calls = call.calls + 1,
                                        !.error = r.error]
              /\ declared' = declared \cup {stack_dir}
        /\ UNCHANGED <<tfv, drawing, base_dir, seen, pc, stack_files>>

(* Graph.resolve_dependencies called by a user of the class *)
ResolveDependencies ==
    /\ pc = "api"
    /\ call.calls < MaxCalls
    /\ LET r == resolve_dependencies(graph, seen)
       IN /\ seen' = r.seen
          /\ call' = [NoCall EXCEPT !.op = "resolve_dependencies",
                                    !.calls = call.calls + 1,
                                    !.ret = r.resolved,
                                    !.error = r.error]
    /\ UNCHANGED <<tfv, drawing, keys, nodes, base_dir, declared, pc, stack_files>>

(* Graph.topological_sort called by a user of the class *)
TopologicalSort ==
    \E reverse \in BOOLEAN :
        /\ pc = "api"
        /\ call.calls < MaxCalls
        /\ call' = [NoCall EXCEPT !.op = "topological_sort",
                                  !.reverse = reverse,
                                  !.prev_forward =
                                      call.op = "topological_sort" /\ ~call.reverse,
                                  !.prev_sorted =
                                      IF call.op = "topological_sort" /\ ~call.reverse
                                      THEN call.ret ELSE <<>>,
                                  !.calls = call.calls + 1,
                                  !.ret = topological_sort(graph, reverse)]
        /\ UNCHANGED <<tfv, drawing, keys, nodes, base_dir, seen, declared, pc, stack_files>>

Next == AddNode \/ ResolveDependencies \/ TopologicalSort

Spec == Init /\ [][Next]_vars

-----------------------------------------------------------------------------
(* The same calls with longer dependency lists and fewer add_node calls:   *)
(* Graph.add_node called with up to MaxListDeps dependencies.              *)

AddNodeLists ==
    \E stack_dir \in StackIds, dependencies \in SeqsUpTo(StackIds, MaxListDeps),
       config \in Configs :
        /\ pc = "api"
        /\ call.calls < MaxListCalls
        /\ LET r == add_node(graph, stack_dir, dependencies, config.runner_label,
                             config.planned_changes, config.skip_when_destroying)
           IN /\ keys' = r.graph.keys
              /\ nodes' = r.graph.nodes
              /\ call' = [NoCall EXCEPT !.op = "add_node",
                                        !.stack_dir = stack_dir,
                                        !.dependencies = dependencies,
                                        !.runner_label = config.runner_label,
                                        !.planned_changes = config.planned_changes,
                                        !.skip_when_destroying = config.skip_when_destroying,
                                        !.was_new = stack_dir \notin DOMAIN nodes,
                                        !.was_declared = stack_dir \in declared,
                                        !.calls = call.calls + 1,
                                        !.error = r.error]
              /\ declared' = declared \cup {stack_dir}
        /\ UNCHANGED <<tfv, drawing, base_dir, seen, pc, stack_files>>

ListNext == AddNodeLists \/ ResolveDependencies \/ TopologicalSort

ListSpec == Init /\ [][ListNext]_vars

-----------------------------------------------------------------------------
(* The calls with the graph rendering of gvgen attached.  DRAW_GRAPH is    *)
(* the flag -d; g exists only when gvgen could be imported (lines 57-62),  *)
(* and a use of g without it raises NameError.  newItem and newLink of     *)
(* gvgen are taken to return normally.                                     *)

(* Node.__init__, lines 75-81 *)
new_item(D, name) ==
    IF D.DRAW_GRAPH
    THEN IF D.gvgen
         THEN [D EXCEPT !.items = Append(@, name),
                        !.graph_item = @ \cup {name}]
         ELSE D
    ELSE D

(* add_edge with the NameError of line 96 left uncaught *)
add_edge_drawn_uncaught(G, D, name, edge) ==
    LET G1 == add_edge(G, name, edge)
    IN IF D.DRAW_GRAPH
       THEN IF ~D.gvgen
            THEN [graph |-> G1, drawing |-> D,
                  error |-> [kind |-> "NameError", n |-> name, d |-> edge]]
            ELSE IF name \notin D.graph_item \/ edge \notin D.graph_item
            THEN [graph |-> G1, drawing |-> D,
                  error |-> [kind |-> "AttributeError", n |-> name, d |-> edge]]
            ELSE [graph |-> G1,
                  drawing |-> [D EXCEPT !.links = Append(@, <<name, edge>>)],
                  error |-> NoError]
       ELSE [graph |-> G1, drawing |-> D, error |-> NoError]

(* Node.add_edge, lines 93-98: the edge is appended, then the link is      *)
(* drawn; NameError is caught, a missing graph_item attribute is not       *)
add_edge_drawn(G, D, name, edge) ==
    LET G1 == add_edge(G, name, edge)
    IN IF D.DRAW_GRAPH
       THEN IF ~D.gvgen
            THEN [graph |-> G1, drawing |-> D, error |-> NoError]
            ELSE IF name \notin D.graph_item \/ edge \notin D.graph_item
            THEN [graph |-> G1, drawing |-> D,
                  error |-> [kind |-> "AttributeError", n |-> name, d |-> edge]]
            ELSE [graph |-> G1,
                  drawing |-> [D EXCEPT !.links = Append(@, <<name, edge>>)],
                  error |-> NoError]
       ELSE [graph |-> G1, drawing |-> D, error |-> NoError]

(* lines 173-180 with the drawing *)
RECURSIVE add_node_deps_drawn(_, _, _, _, _)
add_node_deps_drawn(G, D, stack_dir, dependencies, i) ==
    IF i > Len(dependencies)
    THEN [graph |-> G, drawing |-> D, error |-> NoError]
    ELSE LET dep == dependencies[i]
             new == dep \notin DOMAIN G.nodes
             G1 == IF new
                   THEN SetItem(G, dep,
                                Node(dep, G.base_dir, DEFAULT_RUNNER_LABEL, TRUE, FALSE))
                   ELSE G
             D1 == IF new THEN new_item(D, dep) ELSE D
         IN IF ~G1.nodes[dep].valid_dir
            THEN [graph |-> G1, drawing |-> D1,
                  error |-> [kind |-> UnknownDependency, n |-> stack_dir, d |-> dep]]
            ELSE LET e == add_edge_drawn(G1, D1, stack_dir, dep)
                 IN IF e.error.kind # "none"
                    THEN e
                    ELSE add_node_deps_drawn(e.graph, e.drawing, stack_dir,
                                             dependencies, i + 1)

(* Graph.add_node, lines 141-180, with the drawing *)
add_node_drawn(G, D, stack_dir, dependencies, runner_label, planned_changes, skip_when_destroying) ==
    add_node_deps_drawn(
        add_node_head(G, stack_dir, runner_label, planned_changes, skip_when_destroying),
        IF stack_dir \notin DOMAIN G.nodes THEN new_item(D, stack_dir) ELSE D,
        stack_dir, dependencies, 1)

ObserverInit ==
    /\ keys = <<>>
    /\ nodes = <<>>
    /\ base_dir \in BaseDirs
    /\ seen = <<>>
    /\ declared = {}
    /\ \E d \in BOOLEAN, i \in BOOLEAN :
          drawing = [NoDrawing EXCEPT !.DRAW_GRAPH = d, !.gvgen = i]
    /\ tfv = NoTfv
    /\ call = NoCall
    /\ pc = "api"
    /\ stack_files = <<>>

AddNodeDrawn ==
    \E stack_dir \in StackIds, dependencies \in SeqsUpTo(StackIds, MaxDeps),
       config \in Configs :
        /\ pc = "api"
        /\ call.calls < MaxCalls
        /\ LET r == add_node_drawn(graph, drawing, stack_dir, dependencies,
                                   config.runner_label, config.planned_changes,
                                   config.skip_when_destroying)
           IN /\ keys' = r.graph.keys
              /\ nodes' = r.graph.nodes
              /\ drawing' = r.drawing
              /\ call' = [NoCall EXCEPT !.op = "add_node",
                                        !.stack_dir = stack_dir,
                                        !.dependencies = dependencies,
                                        !.runner_label = config.runner_label,
                                        !.planned_changes = config.planned_changes,
                                        !.skip_when_destroying = config.skip_when_destroying,
                                        !.was_new = stack_dir \notin DOMAIN nodes,
                                        !.was_declared = stack_dir \in declared,
                                        !.calls = call.calls + 1,
                                        !.error = r.error]
              /\ declared' = declared \cup {stack_dir}
        /\ UNCHANGED <<tfv, base_dir, seen, pc, stack_files>>

(* Graph.generate_dot_file, lines 201-206: g.dot(), or a log line without g *)
GenerateDotFile ==
    /\ pc = "api"
    /\ call.calls < MaxCalls
    /\ drawing.DRAW_GRAPH
    /\ call' = [NoCall EXCEPT !.op = "generate_dot_file",
                              !.calls = call.calls + 1]
    /\ UNCHANGED <<tfv, keys, nodes, base_dir, seen, declared, pc, stack_files, drawing>>

ObserverNext ==
    \/ AddNodeDrawn
    \/ ResolveDependencies
    \/ TopologicalSort
    \/ GenerateDotFile

ObserverSpec == ObserverInit /\ [][ObserverNext]_vars

-----------------------------------------------------------------------------
(* The pipeline of __main__ (lines 329-351): process_stack_files feeds     *)
(* every discovered dependencies.json to add_node, then                    *)
(* resolve_dependencies, then topological_sort.  An exception ends the     *)
(* process (pc = "failed").                                                *)

RECURSIVE Perms(_)
Perms(S) ==
    IF S = {} THEN {<<>>}
    ELSE UNION {{<<x>> \o p : p \in Perms(S \ {x})} : x \in S}

(* the directories under base_dir, and those that hold a dependencies.json *)
PipelineWorlds ==
    {[dirs |-> PipelineIds, stacks |-> PipelineIds],
     [dirs |-> PipelineIds, stacks |-> PipelineIds \ {"stack3"}],
     [dirs |-> PipelineIds \ {"stack4"}, stacks |-> PipelineIds \ {"stack4"}],
     [dirs |-> PipelineIds \ {"stack4"}, stacks |-> {}]}

(* the "paths" a dependencies.json may hold *)
PipelinePaths == {<<>>} \cup {<<d>> : d \in PipelineIds}

(* find_stack_directories: os.walk fixes no order among the stacks *)
PipelineInit ==
    \E w \in PipelineWorlds :
        /\ keys = <<>>
        /\ nodes = <<>>
        /\ base_dir = w.dirs
        /\ seen = <<>>
        /\ declared = {}
        /\ drawing = NoDrawing
        /\ tfv = NoTfv
        /\ call = NoCall
        /\ stack_files \in Perms(w.stacks)
        /\ pc = IF w.stacks = {} THEN "resolve_dependencies" ELSE "process_stack_files"

(* one iteration of the loop of process_stack_files (lines 316-324) *)
ProcessStackFile ==
    \E paths \in PipelinePaths, config \in Configs :
        /\ pc = "process_stack_files"
        /\ stack_files # <<>>
        /\ LET stack_dir == Head(stack_files)
               r == add_node(graph, stack_dir, paths, config.runner_label,
                             config.planned_changes, config.skip_when_destroying)
           IN /\ keys' = r.graph.keys
              /\ nodes' = r.graph.nodes
              /\ call' = [NoCall EXCEPT !.op = "add_node",
                                        !.stack_dir = stack_dir,
                                        !.dependencies = paths,
                                        !.runner_label = config.runner_label,
                                        !.planned_changes = config.planned_changes,
                                        !.skip_when_destroying = config.skip_when_destroying,
                                        !.was_new = stack_dir \notin DOMAIN nodes,
                                        !.was_declared = stack_dir \in declared,
                                        !.calls = call.calls + 1,
                                        !.error = r.error]
              /\ pc' = IF r.error.kind # "none" THEN "failed"
                       ELSE IF Tail(stack_files) = <<>> THEN "resolve_dependencies"
                       ELSE "process_stack_files"
              /\ declared' = declared \cup {stack_dir}
        /\ stack_files' = Tail(stack_files)
        /\ UNCHANGED <<tfv, drawing, base_dir, seen>>

(* extract_dependencies_from_file raises ValidationError (lines 276-289) *)
ProcessStackFileInvalid ==
    /\ pc = "process_stack_files"
    /\ stack_files # <<>>
    /\ call' = [NoCall EXCEPT !.op = "extract_dependencies_from_file",
                              !.stack_dir = Head(stack_files),
                              !.calls = call.calls,
                              !.error = [kind |-> "ValidationError",
                                         n |-> Head(stack_files), d |-> ""]]
    /\ pc' = "failed"
    /\ stack_files' = Tail(stack_files)
    /\ UNCHANGED <<tfv, drawing, keys, nodes, base_dir, seen, declared>>

(* line 333 *)
MainResolveDependencies ==
    /\ pc = "resolve_dependencies"
    /\ LET r == resolve_dependencies(graph, seen)
       IN /\ seen' = r.seen
          /\ call' = [NoCall EXCEPT !.op = "resolve_dependencies",
                                    !.calls = call.calls + 1,
                                    !.ret = r.resolved,
                                    !.error = r.error]
          /\ pc' = IF r.error.kind # "none" THEN "failed" ELSE "topological_sort"
    /\ UNCHANGED <<tfv, drawing, keys, nodes, base_dir, declared, stack_files>>

(* line 334; REVERSE_OUTPUT is the command line's flag -r *)
MainTopologicalSort ==
    \E REVERSE_OUTPUT \in BOOLEAN :
        /\ pc = "topological_sort"
        /\ call' = [NoCall EXCEPT !.op = "topological_sort",
                                  !.reverse = REVERSE_OUTPUT,
                                  !.calls = call.calls + 1,
                                  !.ret = topological_sort(graph, REVERSE_OUTPUT)]
        /\ pc' = "done"
        /\ UNCHANGED <<tfv, drawing, keys, nodes, base_dir, seen, declared, stack_files>>

PipelineNext ==
    \/ ProcessStackFile
    \/ ProcessStackFileInvalid
    \/ MainResolveDependencies
    \/ MainTopologicalSort

PipelineSpec == PipelineInit /\ [][PipelineNext]_vars

-----------------------------------------------------------------------------
(* Vocabulary of the properties *)

Succs(n) == Range(nodes[n].edges)

RECURSIVE Closure(_)
Closure(S) ==
    LET T == S \cup UNION {Succs(m) : m \in S}
    IN IF T = S THEN S ELSE Closure(T)

(* the nodes reachable from n through one or more dependsOn edges *)
Descendants(n) == Closure(Succs(n))

Reaches(a, b) == b \in Descendants(a)

Acyclic == \A n \in DOMAIN nodes : ~Reaches(n, n)

Unrelated(a, b) == a # b /\ ~Reaches(a, b) /\ ~Reaches(b, a)

(* the position of x in the list s (0 when absent) *)
Pos(s, x) == IF In(x, s) THEN CHOOSE i \in 1..Len(s) : s[i] = x ELSE 0

IsPermutationOfNodes(s) ==
    /\ Len(s) = Cardinality(DOMAIN nodes)
    /\ Range(s) = DOMAIN nodes

Metadata(n) ==
    [runner_label |-> nodes[n].runner_label,
     planned_changes |-> nodes[n].planned_changes,
     skip_when_destroying |-> nodes[n].skip_when_destroying]

CallConfig ==
    [runner_label |-> call.runner_label,
     planned_changes |-> call.planned_changes,
     skip_when_destroying |-> call.skip_when_destroying]

DefaultConfig ==
    [runner_label |-> DEFAULT_RUNNER_LABEL, planned_changes |-> TRUE,
     skip_when_destroying |-> FALSE]

ForwardSorted == call.op = "topological_sort" /\ ~call.reverse

-----------------------------------------------------------------------------
(* C1: on an acyclic graph topological_sort(reverse=False) returns every   *)
(* node of the graph exactly once, and every dependency at an earlier      *)
(* position than the nodes that depend on it.                              *)
C1_ForwardOrderIsTopological ==
    (ForwardSorted /\ Acyclic) =>
        /\ IsPermutationOfNodes(call.ret)
        /\ \A a \in DOMAIN nodes : \A b \in Succs(a) :
              Pos(call.ret, b) < Pos(call.ret, a)

C1_Witness ==
    /\ ForwardSorted
    /\ Acyclic
    /\ Len(keys) = 3
    /\ \E a, b, c \in DOMAIN nodes :
          /\ a # b /\ b # c /\ a # c
          /\ b \in Succs(a) /\ c \in Succs(b)
          /\ Pos(keys, a) < Pos(keys, b)

(* C2: in the pipeline a dependency set with a cycle never reaches         *)
(* topological_sort: resolve_dependencies, once called, fails with         *)
(* "Circular reference detected" and the process ends.                     *)
C2_CycleFailsBeforeOrdering ==
    ~Acyclic =>
        /\ pc \notin {"topological_sort", "done"}
        /\ call.op # "topological_sort"
        /\ call.op = "resolve_dependencies" =>
              (call.error.kind = CircularReference /\ pc = "failed")

C2_Witness ==
    /\ ~Acyclic
    /\ pc = "failed"
    /\ call.op = "resolve_dependencies"
    /\ call.error.kind = CircularReference
    /\ Len(keys) = 4
    /\ ~Reaches(keys[1], keys[1])

(* C3: topological_sort(reverse=True) called right after                   *)
(* topological_sort(reverse=False) on the same graph returns the forward   *)
(* list read from its last element to its first.                           *)
C3_ReverseIsExactReverse ==
    (call.op = "topological_sort" /\ call.reverse /\ call.prev_forward) =>
        /\ Len(call.ret) = Len(call.prev_sorted)
        /\ \A i \in 1..Len(call.ret) :
              call.ret[i] = call.prev_sorted[Len(call.ret) + 1 - i]

C3_Witness ==
    /\ call.op = "topological_sort"
    /\ call.reverse
    /\ call.prev_forward
    /\ Len(call.ret) = 3
    /\ \E a \in DOMAIN nodes : Succs(a) # {}

(* C4: add_node with a stack_dir not yet in nodes creates the node with    *)
(* the runner_label, planned_changes and skip_when_destroying passed in.   *)
C4_NewNodeTakesConfig ==
    (call.op = "add_node" /\ call.was_new) => Metadata(call.stack_dir) = CallConfig

(* C5: a dependency without backing directory makes add_node fail with     *)
(* "Unknown dependency detected" naming the dependent stack and the        *)
(* dependency, and no edge to that dependency exists.                      *)
C5_UnknownDependencyFails ==
    (call.op = "add_node" /\ \E i \in 1..Len(call.dependencies) :
                                 call.dependencies[i] \notin base_dir) =>
        /\ call.error.kind = UnknownDependency
        /\ call.error.n = call.stack_dir
        /\ In(call.error.d, call.dependencies)
        /\ call.error.d \notin base_dir
        /\ \A a \in DOMAIN nodes : call.error.d \notin Succs(a)

C5_Witness ==
    /\ call.op = "add_node"
    /\ call.error.kind = UnknownDependency
    /\ call.error.d \in DOMAIN nodes
    /\ call.error.d # call.stack_dir
    /\ Succs(call.stack_dir) # {}

(* C6: a node that add_node was never called for has the default          *)
(* metadata; after add_node is called for an existing node, its three      *)
(* metadata fields are the ones passed in.                                 *)
C6_DefaultsUntilDeclared ==
    /\ \A n \in DOMAIN nodes \ declared : Metadata(n) = DefaultConfig
    /\ (call.op = "add_node" /\ ~call.was_new) =>
          Metadata(call.stack_dir) = CallConfig

C6_Witness ==
    /\ call.op = "add_node"
    /\ ~call.was_new
    /\ ~call.was_declared
    /\ CallConfig # DefaultConfig
    /\ DOMAIN nodes \ declared # {}

(* C7 as stated: two nodes with no dependency relationship appear in the   *)
(* forward output in the order of their first insertion.                   *)
C7_UnrelatedInInsertionOrder ==
    ForwardSorted =>
        \A x, y \in DOMAIN nodes :
            (Unrelated(x, y) /\ Pos(keys, x) < Pos(keys, y)) =>
                Pos(call.ret, x) < Pos(call.ret, y)

(* C7 amended: two nodes with no dependency relationship appear in the     *)
(* forward output in the order of their first insertion when the later one *)
(* is not reachable from a node inserted before the earlier one.           *)
C7_UnrelatedInRootOrder ==
    ForwardSorted =>
        \A x, y \in DOMAIN nodes :
            (/\ Unrelated(x, y)
             /\ Pos(keys, x) < Pos(keys, y)
             /\ \A z \in DOMAIN nodes :
                   Pos(keys, z) < Pos(keys, x) => ~Reaches(z, y)) =>
                Pos(call.ret, x) < Pos(call.ret, y)

C7_Witness ==
    /\ ForwardSorted
    /\ \E x, y, z \in DOMAIN nodes :
          /\ Unrelated(x, y)
          /\ Pos(keys, z) < Pos(keys, x)
          /\ Pos(keys, x) < Pos(keys, y)
          /\ Reaches(z, x)
          /\ ~Reaches(z, y)

(* C8: the stacks stack1 -> [stack3], stack2 -> [stack1],                  *)
(* stack3 -> [stack4], stack4 -> [], processed in any order, pass          *)
(* validation and are ordered [stack4, stack3, stack1, stack2], reversed   *)
(* [stack2, stack1, stack3, stack4].                                       *)
ExampleStacks ==
    /\ declared = PipelineIds
    /\ DOMAIN nodes = PipelineIds
    /\ stack_files = <<>>
    /\ nodes["stack1"].edges = <<"stack3">>
    /\ nodes["stack2"].edges = <<"stack1">>
    /\ nodes["stack3"].edges = <<"stack4">>
    /\ nodes["stack4"].edges = <<>>

C8_ExampleOrder ==
    ExampleStacks =>
        /\ pc \in {"resolve_dependencies", "topological_sort", "done"}
        /\ call.op = "resolve_dependencies" => call.error.kind = "none"
        /\ call.op = "topological_sort" =>
              call.ret = IF call.reverse
                         THEN <<"stack2", "stack1", "stack3", "stack4">>
                         ELSE <<"stack4", "stack3", "stack1", "stack2">>

C8_Witness ==
    /\ ExampleStacks
    /\ pc = "done"
    /\ call.reverse
    /\ keys = <<"stack4", "stack3", "stack1", "stack2">>

(* C9: when resolve_dependencies fails, the edge n -> d it names closes a  *)
(* cycle: d is a dependency of n and n is reachable from d.                *)
C9_ErrorNamesClosingEdge ==
    (call.op = "resolve_dependencies" /\ call.error.kind = CircularReference) =>
        /\ call.error.n \in DOMAIN nodes
        /\ call.error.d \in Succs(call.error.n)
        /\ Reaches(call.error.d, call.error.n)

(* C10: the list seen holds the current traversal path only; it is empty   *)
(* when resolve_dependencies has completed.                                *)
C10_SeenEmptyAfterPass ==
    (call.op = "resolve_dependencies" /\ call.error.kind = "none") => seen = <<>>

(* C11: every node that is the target of a dependsOn edge has a backing    *)
(* directory (valid_dir), also after failing add_node calls.               *)
C11_EdgeTargetsHaveDirectory ==
    \A a \in DOMAIN nodes : \A b \in Succs(a) : nodes[b].valid_dir

C11_Witness ==
    /\ call.op = "add_node"
    /\ call.error.kind = UnknownDependency
    /\ \E a \in DOMAIN nodes : Succs(a) # {}
    /\ \E b \in DOMAIN nodes : ~nodes[b].valid_dir /\ nodes[b].edges # <<>>

(* C12: the Graph holds exactly one Node per identifier passed as          *)
(* stack_dir or processed as a dependency: a call keeps the earlier keys   *)
(* in their positions, adds only these identifiers, never a duplicate, and *)
(* removes none; an identifier never mentioned has no node and is in no    *)
(* output.                                                                 *)
NoDuplicates(s) == \A i, j \in 1..Len(s) : s[i] = s[j] => i = j

IsPrefix(s, t) == Len(s) <= Len(t) /\ \A i \in 1..Len(s) : s[i] = t[i]

(* the dependencies an add_node call went through: all of them, or those   *)
(* up to the first one without directory                                   *)
Processed(c) ==
    LET missing == {i \in 1..Len(c.dependencies) : c.dependencies[i] \notin base_dir}
        last == IF missing = {} THEN Len(c.dependencies)
                ELSE CHOOSE i \in missing : \A j \in missing : i <= j
    IN {c.dependencies[i] : i \in 1..last}

Mentioned(c) == IF c.op = "add_node" THEN {c.stack_dir} \cup Processed(c) ELSE {}

C12_OneNodePerIdentifier ==
    [][/\ IsPrefix(keys, keys')
       /\ NoDuplicates(keys')
       /\ Range(keys') = DOMAIN nodes'
       /\ \A k \in DOMAIN nodes' : nodes'[k].name = k
       /\ Range(keys') = Range(keys) \cup Mentioned(call')
       /\ call'.op = "topological_sort" => Range(call'.ret) \subseteq Range(keys)]_vars

C12_Witness ==
    /\ call.op = "add_node"
    /\ ~call.was_new
    /\ call.dependencies # <<>>
    /\ Len(keys) = 2
    /\ keys[1] = call.stack_dir
    /\ base_dir \ DOMAIN nodes # {}

(* C13: a successful add_node leaves stack_dir's edges equal to its edges  *)
(* before the call followed by the dependencies of the call in their       *)
(* order, and the edges of every other node as they were.                  *)
EdgesBefore(n) == IF n \in DOMAIN nodes THEN nodes[n].edges ELSE <<>>

C13_EdgesAppendedInOrder ==
    [][(call'.op = "add_node" /\ call'.error.kind = "none") =>
          /\ nodes'[call'.stack_dir].edges =
                 EdgesBefore(call'.stack_dir) \o call'.dependencies
          /\ \A n \in DOMAIN nodes' \ {call'.stack_dir} :
                 nodes'[n].edges = EdgesBefore(n)]_vars

C13_Witness ==
    /\ call.op = "add_node"
    /\ call.error.kind = "none"
    /\ call.was_declared
    /\ Len(call.dependencies) = 2
    /\ call.dependencies[1] # call.dependencies[2]
    /\ Len(nodes[call.stack_dir].edges) = 3
    /\ \E n \in DOMAIN nodes \ {call.stack_dir} : nodes[n].edges # <<>>

(* C14: with the drawing enabled or disabled, and gvgen imported or not,   *)
(* add_node leaves the nodes, their metadata and edges and its own outcome *)
(* as add_node without drawing does, and drawing the DOT file changes      *)
(* nothing of the graph.                                                   *)
C14_DrawingDoesNotAffectCore ==
    [][/\ call'.op = "add_node" =>
             LET core == add_node(graph, call'.stack_dir, call'.dependencies,
                                  call'.runner_label, call'.planned_changes,
                                  call'.skip_when_destroying)
             IN /\ keys' = core.graph.keys
                /\ nodes' = core.graph.nodes
                /\ call'.error = core.error
       /\ call'.op = "generate_dot_file" =>
             <<keys, nodes, seen>>' = <<keys, nodes, seen>>]_vars

C14_Witness ==
    /\ call.op = "add_node"
    /\ call.error.kind = "none"
    /\ drawing.DRAW_GRAPH
    /\ ~drawing.gvgen
    /\ Len(keys) = 3
    /\ \E a, b \in DOMAIN nodes : a # b /\ Succs(a) # {} /\ Succs(b) # {}

-----------------------------------------------------------------------------
(* .github/actions/parse-terraform-version/main.py                         *)
(*                                                                         *)
(* A version string "1.2.3" is the tuple <<1, 2, 3>> of its components.  A *)
(* constraint string is the record of its operator, whether a blank        *)
(* follows the operator, its version, and rest, the further comparisons    *)
(* written after it, each as ", " operator " " version.  Where the code    *)
(* looks at the characters of a string (startswith, ==, !=), the string is *)
(* the sequence of its characters: a decimal digit is itself, the other    *)
(* characters are the codes below.                                         *)

Dot == 0 - 1

Equals == 0 - 2

Blank == 0 - 3

Comma == 0 - 4

Less == 0 - 5

Greater == 0 - 6

Bang == 0 - 7

Tilde == 0 - 8

None == [space |-> FALSE, v |-> <<>>, error |-> "none"]

(* parse_terraform_version left by an exception *)
Raised(error) == [space |-> FALSE, v |-> <<>>, error |-> error]

(* satisfies_constraint returning a boolean, or left by an exception *)
Returns(value) == [value |-> value, error |-> "none"]

Raises(error) == [value |-> FALSE, error |-> error]

Operators == {"", "=", "!=", ">=", ">", "<=", "<", "~>"}

(* The versions of the releases list and of terraform_versions.txt *)
FetchedVersions ==
    {<<0, 12, 0>>, <<0, 12, 1>>, <<1, 2, 3>>, <<1, 3, 0>>, <<10, 0, 0>>}

(* The versions written in a required_version *)
ConstraintVersions ==
    {<<0, 12, 0>>, <<0, 12, 1>>, <<1>>, <<1, 2>>, <<1, 3, 0>>, <<2, 0, 0>>,
     <<11, 2, 3>>}

(* What follows the first comparison of a required_version: nothing, or a  *)
(* second comparison as in ">= 1.2, < 2.0.0".                              *)
Rests == {<<>>, <<[op |-> "<", v |-> <<2, 0, 0>>]>>}

(* extract_version_constraints captures whatever text stands between the   *)
(* quotes of required_version.  The model draws that text from: a bare     *)
(* version or one comparison, the version of one to three components,      *)
(* alone or followed by a second comparison.                               *)
Constraints ==
    {c \in [op : Operators, space : BOOLEAN, v : ConstraintVersions,
            rest : Rests] :
        c.op = "" => ~c.space}

RECURSIVE Digits(_)
Digits(n) == IF n < 10 THEN <<n>> ELSE Digits(n \div 10) \o <<n % 10>>

RECURSIVE Text(_)
Text(v) ==
    IF v = <<>> THEN <<>>
    ELSE IF Len(v) = 1 THEN Digits(v[1])
    ELSE Digits(v[1]) \o <<Dot>> \o Text(Tail(v))

OperatorText(op) ==
    CASE op = "=" -> <<Equals>>
      [] op = "!=" -> <<Bang, Equals>>
      [] op = ">=" -> <<Greater, Equals>>
      [] op = ">" -> <<Greater>>
      [] op = "<=" -> <<Less, Equals>>
      [] op = "<" -> <<Less>>
      [] op = "~>" -> <<Tilde, Greater>>
      [] OTHER -> <<>>

RECURSIVE RestText(_)
RestText(rest) ==
    IF rest = <<>> THEN <<>>
    ELSE <<Comma, Blank>> \o OperatorText(rest[1].op) \o <<Blank>>
             \o Text(rest[1].v) \o RestText(Tail(rest))

(* The characters of the constraint *)
ConstraintString(constraint) ==
    OperatorText(constraint.op)
        \o (IF constraint.space THEN <<Blank>> ELSE <<>>)
        \o Text(constraint.v) \o RestText(constraint.rest)

(* constraint[n:].strip(), n the length of the operator *)
OperandString(constraint) == Text(constraint.v) \o RestText(constraint.rest)

(* version.parse accepts the operand: nothing follows its version *)
is_version(constraint) == constraint.rest = <<>>

(* str.strip(): the string without its leading and trailing blanks *)
RECURSIVE strip(_)
strip(s) ==
    IF s = <<>> THEN s
    ELSE IF Head(s) = Blank THEN strip(Tail(s))
    ELSE IF s[Len(s)] = Blank THEN strip(SubSeq(s, 1, Len(s) - 1))
    ELSE s

startswith(s, prefix) ==
    Len(prefix) <= Len(s) /\ SubSeq(s, 1, Len(prefix)) = prefix

(* packaging.version.parse: the release, missing components counting as 0 *)
parse(v) == [i \in 1..3 |-> IF i <= Len(v) THEN v[i] ELSE 0]

version_compare(v1, v2) ==
    LET a == parse(v1)
        b == parse(v2)
    IN  \/ a[1] < b[1]
        \/ a[1] = b[1] /\ a[2] < b[2]
        \/ a[1] = b[1] /\ a[2] = b[2] /\ a[3] <= b[3]

(* re.findall(r"\d+\.\d+", constraint): the first two components of every  *)
(* version of the constraint that has at least two                         *)
RECURSIVE findall_rest(_)
findall_rest(rest) ==
    IF rest = <<>> THEN <<>>
    ELSE (IF Len(rest[1].v) >= 2 THEN <<SubSeq(rest[1].v, 1, 2)>> ELSE <<>>)
             \o findall_rest(Tail(rest))

findall(constraint) ==
    (IF Len(constraint.v) >= 2 THEN <<SubSeq(constraint.v, 1, 2)>> ELSE <<>>)
        \o findall_rest(constraint.rest)

pessimistic_match(constraint, ver) ==
    LET matches == findall(constraint)
        base_version == matches[Len(matches)]
        prefix == Text(SubSeq(base_version, 1, Len(base_version) - 1))
    IN  IF matches = <<>> THEN Raises("IndexError")
        ELSE IF startswith(Text(ver), prefix)
        THEN Returns(version_compare(base_version, ver))
        ELSE Returns(FALSE)

satisfies_constraint(constraint, ver) ==
    CASE constraint.op = "!=" -> Returns(Text(ver) # OperandString(constraint))
      [] constraint.op = ">=" ->
            IF ~is_version(constraint) THEN Raises("InvalidVersion")
            ELSE Returns(version_compare(constraint.v, ver))
      [] constraint.op = ">" ->
            IF ~is_version(constraint) THEN Raises("InvalidVersion")
            ELSE Returns(/\ version_compare(constraint.v, ver)
                         /\ Text(ver) # OperandString(constraint))
      [] constraint.op = "<=" ->
            IF ~is_version(constraint) THEN Raises("InvalidVersion")
            ELSE Returns(version_compare(ver, constraint.v))
      [] constraint.op = "<" ->
            IF ~is_version(constraint) THEN Raises("InvalidVersion")
            ELSE Returns(/\ version_compare(ver, constraint.v)
                         /\ Text(ver) # OperandString(constraint))
      [] constraint.op = "~>" -> pessimistic_match(constraint, ver)
      [] OTHER ->
            LET stripped == strip(ConstraintString(constraint))
            IN  Returns(\/ Text(ver) = strip(stripped)
                        \/ Text(ver) = strip(Tail(stripped)))

(* sorted(versions, key=version.parse) *)
RECURSIVE fetch_all_versions(_)
fetch_all_versions(versions) ==
    IF versions = {} THEN <<>>
    ELSE LET least ==
                 CHOOSE v \in versions : \A w \in versions : version_compare(v, w)
         IN  <<least>> \o fetch_all_versions(versions \ {least})

(* max(filtered_versions, key=version.parse): the first greatest element *)
RECURSIVE max_version(_)
max_version(filtered_versions) ==
    IF Len(filtered_versions) = 1 THEN filtered_versions[1]
    ELSE LET rest == max_version(Tail(filtered_versions))
         IN  IF version_compare(rest, filtered_versions[1])
             THEN filtered_versions[1]
             ELSE rest

(* version.parse accepts version_constraints[0].strip("=") *)
is_exact_version(constraint) ==
    constraint.op \in {"", "="} /\ is_version(constraint)

exact_version(constraint) ==
    [space |-> constraint.space, v |-> constraint.v, error |-> "none"]

(* all(satisfies_constraint(c, ver) for c in version_constraints): stops   *)
(* at the first constraint that is not satisfied or raises                 *)
RECURSIVE all_satisfied(_, _, _)
all_satisfied(version_constraints, i, ver) ==
    IF i > Len(version_constraints) THEN Returns(TRUE)
    ELSE LET r == satisfies_constraint(version_constraints[i], ver)
         IN  IF r.error # "none" \/ ~r.value THEN r
             ELSE all_satisfied(version_constraints, i + 1, ver)

(* the list comprehension of lines 191-195 *)
RECURSIVE filter_versions(_, _, _, _)
filter_versions(version_constraints, all_versions, k, filtered_versions) ==
    IF k > Len(all_versions)
    THEN [filtered_versions |-> filtered_versions, error |-> "none"]
    ELSE LET r == all_satisfied(version_constraints, 1, all_versions[k])
         IN  IF r.error # "none"
             THEN [filtered_versions |-> filtered_versions, error |-> r.error]
             ELSE filter_versions(
                      version_constraints, all_versions, k + 1,
                      IF r.value THEN Append(filtered_versions, all_versions[k])
                      ELSE filtered_versions)

parse_terraform_version(version_constraints, versions) ==
    IF version_constraints = <<>> THEN None
    ELSE IF is_exact_version(version_constraints[1])
    THEN exact_version(version_constraints[1])
    ELSE LET f == filter_versions(version_constraints,
                                  fetch_all_versions(versions), 1, <<>>)
         IN  IF f.error # "none" THEN Raised(f.error)
             ELSE IF f.filtered_versions = <<>> THEN None
             ELSE [space |-> FALSE, v |-> max_version(f.filtered_versions),
                   error |-> "none"]

VersionInit ==
    /\ keys = <<>>
    /\ nodes = <<>>
    /\ base_dir \in BaseDirs
    /\ seen = <<>>
    /\ declared = {}
    /\ drawing = NoDrawing
    /\ call = NoCall
    /\ pc = "api"
    /\ stack_files = <<>>
    /\ \E version_constraints \in SeqsUpTo(Constraints, 1),
          versions \in SUBSET FetchedVersions :
          tfv = [version_constraints |-> version_constraints,
                 versions |-> versions, pc |-> "start", result |-> None]

ParseTerraformVersion ==
    /\ tfv.pc = "start"
    /\ tfv' = [tfv EXCEPT
                 !.result = parse_terraform_version(tfv.version_constraints,
                                                    tfv.versions),
                 !.pc = "done"]
    /\ UNCHANGED <<keys, nodes, base_dir, seen, declared, call, pc,
                   stack_files, drawing>>

VersionNext == ParseTerraformVersion

VersionSpec == VersionInit /\ [][VersionNext]_vars

(* The fetched versions for which satisfies_constraint returns True on     *)
(* every extracted constraint                                              *)
Satisfying ==
    {ver \in tfv.versions :
        \A i \in DOMAIN tfv.version_constraints :
            satisfies_constraint(tfv.version_constraints[i], ver) =
                Returns(TRUE)}

HighestSatisfying ==
    IF Satisfying = {} THEN tfv.result = None
    ELSE /\ ~tfv.result.space
         /\ tfv.result.v \in Satisfying
         /\ \A ver \in Satisfying : version_compare(ver, tfv.result.v)

(* C15: parse_terraform_version returns, and what it returns is the        *)
(* highest fetched version that satisfies every extracted constraint, or   *)
(* None when there is no constraint or no fetched version satisfies them.  *)
C15_HighestSatisfyingFetched ==
    tfv.pc = "done" =>
        /\ tfv.result.error = "none"
        /\ IF tfv.version_constraints = <<>> THEN tfv.result = None
           ELSE HighestSatisfying

(* C16: on an acyclic graph resolve_dependencies never reports a cycle, on *)
(* the first pass and on every later pass over the same Graph.             *)
C16_AcyclicNeverReportsCycle ==
    (call.op = "resolve_dependencies" /\ Acyclic) => call.error = NoError

(* C17: on an acyclic graph the list returned by resolve_dependencies      *)
(* holds every node of the graph exactly once, every dependency before the *)
(* nodes that depend on it.                                                *)
C17_ResolvedEveryNodeOnce ==
    (call.op = "resolve_dependencies" /\ call.error = NoError /\ Acyclic) =>
        /\ IsPermutationOfNodes(call.ret)
        /\ \A a \in DOMAIN nodes : \A b \in Succs(a) :
              \E i, j \in 1..Len(call.ret) :
                  i < j /\ call.ret[i] = b /\ call.ret[j] = a

(* C18: when add_node is called again for a stack with the dependencies    *)
(* the stack already has, whatever the config, resolve_dependencies (from  *)
(* a fresh seen and from the current seen) and topological_sort, forward   *)
(* and reversed, give on the graph after the call what they give on the    *)
(* graph before it.                                                        *)
GraphAfter == [keys |-> keys', nodes |-> nodes', base_dir |-> base_dir']

C18_DuplicateEdgesHarmless ==
    [][(/\ call'.op = "add_node"
        /\ call'.was_declared
        /\ call'.stack_dir \in DOMAIN nodes
        /\ EdgesBefore(call'.stack_dir) = call'.dependencies) =>
          /\ call'.error = NoError
          /\ \A reverse \in BOOLEAN :
                 topological_sort(GraphAfter, reverse) =
                     topological_sort(graph, reverse)
          /\ \A seen0 \in {<<>>, seen} :
                 resolve_dependencies(GraphAfter, seen0) =
                     resolve_dependencies(graph, seen0)]_vars

C18_Witness ==
    /\ call.op = "add_node"
    /\ call.was_declared
    /\ call.error = NoError
    /\ Len(call.dependencies) = 2
    /\ call.dependencies[1] # call.dependencies[2]
    /\ nodes[call.stack_dir].edges = call.dependencies \o call.dependencies
    /\ \E n \in DOMAIN nodes \ {call.stack_dir} : nodes[n].edges # <<>>

(* C19: topological_sort returns on every graph, also on one with a cycle  *)
(* or a self-dependency, and the list it returns holds every node of the   *)
(* graph exactly once.                                                     *)
C19_SortCoversEveryGraph ==
    call.op = "topological_sort" =>
        /\ IsPermutationOfNodes(call.ret)
        /\ \A reverse \in BOOLEAN :
               IsPermutationOfNodes(topological_sort(graph, reverse))

C19_Witness ==
    /\ call.op = "topological_sort"
    /\ IsPermutationOfNodes(call.ret)
    /\ Len(keys) = 3
    /\ \E n \in DOMAIN nodes : n \in Succs(n)
    /\ \E a, b \in DOMAIN nodes : a # b /\ Reaches(a, b) /\ Reaches(b, a)

====
